---- MODULE Spec2Model ----
(***************************************************************************)
(* Model of elastic_copier.py: the batch driver main(), copy_index and the *)
(* three steps it runs for every (source, target) pair                     *)
(* (get_source_index_info, create_index_with_settings, reindex_data), the  *)
(* CopyStatistics accumulator, and the two clusters the requests talk to.  *)
(* One action is one HTTP request together with all the client code that   *)
(* runs until the next request: the response is drawn from the outcomes    *)
(* the cluster can produce.  elk-simple-copier.py is the same pipeline     *)
(* without statistics and with a fixed field limit.                        *)
(***************************************************************************)
EXTENDS Integers, Sequences, FiniteSets, TLC

\* Number of (source, target) pairs of the work list (index_map).  Pair i
\* copies source index i to target index i: the keys of index_map are distinct
\* and the targets are taken distinct too, so that a pair's requests address
\* no index of another pair.
NumPairs == 2

\* Largest number of documents one scroll session returns over all its pages.
MaxDocs == 2

VARIABLES
    pc,                  \* position of main / copy_index
    idx,                 \* position of main's for loop in index_map (0 before it)
    total_fields_limit,  \* ElasticsearchCopier.total_fields_limit
    stats,               \* ElasticsearchCopier.stats (CopyStatistics)
    settings_response,   \* get_source_index_info: body of the settings response
    settings,            \* copy_index: settings of the source index
    mappings,            \* copy_index: mappings of the source index
    delete_response,     \* create_index_with_settings: what the delete request gave
    scroll_id,           \* reindex_data: cursor token held by the client
    hits,                \* reindex_data: documents of the current page (ids)
    total_docs,          \* reindex_data: running count
    dest,                \* destination cluster: the index the current pair targets
    live,                \* pairs whose scroll session was opened and not released
    token,               \* source cluster: latest token of the current session
    output,              \* what main printed from stats.summary()
    calls,               \* the pairs copy_index was called with, in order
    h,                   \* history of the current copy_index call
    prev                 \* what the earlier copy of the same pair left, if any

vars == <<pc, idx, total_fields_limit, stats, settings_response, settings,
          mappings, scroll_id, hits, total_docs, dest, live, token, output, calls,
          h, prev, delete_response>>

PairIds == 1..NumPairs

----------------------------------------------------------------------------
\* Python values

\* Optional[int]: None or an int
None == [isNone |-> TRUE, v |-> 0]
Some(n) == [isNone |-> FALSE, v |-> n]

\* truth value of an Optional[int] in an `if`
Truthy(o) == ~o.isNone /\ o.v # 0

\* dict.get(k, default)
Get(d, k, default) == IF k \in DOMAIN d THEN d[k] ELSE default

EmptyDict == [k \in {} |-> None]

\* exceptions: does the object have a `response` attribute, and is it a response
HTTPError == [type |-> "HTTPError", hasattr_response |-> TRUE, response |-> "body"]
ConnectionError == [type |-> "ConnectionError", hasattr_response |-> TRUE, response |-> "None"]
KeyError == [type |-> "KeyError", hasattr_response |-> FALSE, response |-> "None"]

----------------------------------------------------------------------------
\* The clusters

\* values of --total-fields-limit the copier can be constructed with
PolicyValues == {None, Some(-1), Some(-2), Some(0), Some(3)}

\* field limits a source index declares
SourceLimits == {5}

\* settings of a source index as GET /<index>/_settings returns them under
\* [index]['settings']: a nested document, with or without a field limit
SourceIndexSettings ==
    [number_of_shards |-> "2", number_of_replicas |-> "0"]

SourceSettingsDocs ==
    {[index |-> SourceIndexSettings]}
    \cup {[index |-> SourceIndexSettings @@
                     [mapping |-> [total_fields |-> [limit |-> Some(l)]]]]
          : l \in SourceLimits}

SourceMappings(i) == [properties |-> i]

\* a destination index: absent, or present with its configuration and documents
Absent == [exists |-> FALSE, config |-> EmptyDict, docs |-> {}]
OldConfig ==
    [settings |-> [index |-> [number_of_shards |-> "9", number_of_replicas |-> "9"]],
     mappings |-> [properties |-> 0]]
OldIndex == [exists |-> TRUE, config |-> OldConfig, docs |-> {0}]

----------------------------------------------------------------------------
\* CopyStatistics

NewStatistics ==
    [successful_copies |-> <<>>, failed_copies |-> <<>>, total_documents |-> 0,
     start_time |-> FALSE, end_time |-> FALSE]

\* faulty variant: the count is not added to the total
add_success_no_total(st, source, target, doc_count) ==
    [st EXCEPT !.successful_copies = Append(@, <<source, target, doc_count>>)]

\* lines 42-45
add_success(st, source, target, doc_count) ==
    [st EXCEPT !.successful_copies = Append(@, <<source, target, doc_count>>),
               !.total_documents = @ + doc_count]

\* lines 47-49
add_failure(st, source, target, error) ==
    [st EXCEPT !.failed_copies = Append(@, <<source, target, error>>)]

\* line 61: end_time - start_time raises TypeError while either is None
summary_raises(st) == ~st.start_time \/ ~st.end_time

\* lines 59-84: the figures and the two lists the report is rendered from
summary(st) ==
    [success_count |-> Len(st.successful_copies),
     fail_count |-> Len(st.failed_copies),
     total_documents |-> st.total_documents,
     successful |-> st.successful_copies,
     failed |-> st.failed_copies]

----------------------------------------------------------------------------
\* Responses of the source cluster to the two schema requests: the JSON body
\* maps the index name to its document, or lacks the index name

SettingsBodies(i) ==
    {(i :> [settings |-> s]) : s \in SourceSettingsDocs} \cup {EmptyDict}

MappingsBodies(i) ==
    {(i :> [mappings |-> SourceMappings(i)]), EmptyDict}

\* responses to a bulk request that raise nothing: 200 with errors=true, 200
\* without errors, a status other than 200
BulkResponses == <<"partial", "ok", "error">>

\* the documents of `page` a bulk request answered with r did not write: a
\* non-empty part of the page, none, all
RejectedBy(r, page) ==
    IF r = "partial" THEN SUBSET page \ {{}}
    ELSE IF r = "ok" THEN {{}}
    ELSE {page}

----------------------------------------------------------------------------
\* create_index_with_settings: the configuration of the destination index

\* lines 167-168
source_total_fields(source_settings) ==
    Get(Get(Get(source_settings, "index", EmptyDict), "mapping", EmptyDict),
        "total_fields.limit", None)

\* lines 171-176
BaseSettings(source_settings) ==
    [number_of_shards |->
         Get(Get(source_settings, "index", EmptyDict), "number_of_shards", "1"),
     number_of_replicas |->
         Get(Get(source_settings, "index", EmptyDict), "number_of_replicas", "1")]

FieldLimit(limit) == [mapping |-> [total_fields |-> [limit |-> limit]]]

\* lines 171-191
DestSettings(source_settings, policy) ==
    [index |->
        IF policy = Some(-1)
        THEN IF Truthy(source_total_fields(source_settings))
             THEN BaseSettings(source_settings)
                  @@ FieldLimit(source_total_fields(source_settings))
             ELSE BaseSettings(source_settings)
        ELSE IF Truthy(policy) /\ policy.v > 0
             THEN BaseSettings(source_settings) @@ FieldLimit(policy)
             ELSE BaseSettings(source_settings)]

\* faulty variant: the source mappings are left out of the create request
CreateConfig_NoMappings(source_settings, source_mappings, policy) ==
    [settings |-> DestSettings(source_settings, policy),
     mappings |-> EmptyDict]

\* lines 193-196
CreateConfig(source_settings, source_mappings, policy) ==
    [settings |-> DestSettings(source_settings, policy),
     mappings |-> source_mappings]

----------------------------------------------------------------------------
\* History of the current copy_index call (reset when the call starts)

History(i) ==
    [pair |-> i,
     infoDone |-> FALSE,       \* get_source_index_info has returned
     deletes |-> 0,            \* delete requests issued
     deleted |-> FALSE,        \* the delete request removed the target index
     creates |-> 0,            \* create requests issued
     schemaDone |-> FALSE,     \* create_index_with_settings has ended
     created |-> FALSE,        \* the cluster applied the create request
     createOk |-> FALSE,       \* the create request returned 2xx
     searches |-> 0,           \* opening search requests issued
     opened |-> 0,             \* scroll sessions opened (2xx with a token)
     released |-> 0,           \* release requests issued
     scrolls |-> 0,            \* next-page requests issued
     stale |-> 0,              \* requests that carried a superseded token
     pages |-> <<>>,           \* the non-empty pages returned (document ids)
     bulks |-> 0,              \* bulk requests issued
     sent |-> <<>>,            \* the document ids of each bulk request
     partials |-> 0,           \* bulk responses that were 200 with errors=true
     errors |-> 0,             \* bulk responses that were not 200
     fetched |-> 0,            \* documents returned over all pages
     written |-> {},           \* documents the destination accepted
     stray |-> {},             \* actions carried out on another index
     outcome |-> "none",       \* returned, raised
     error |-> "none"]         \* the type of the exception that was raised

\* No earlier copy of the pair in this run: the source shows its documents
\* page by page.  Otherwise: the documents the earlier copy left in the target
\* index, the number the source returned to it, and whether every bulk
\* response was 200 without errors.
NoPrev == [run |-> 1, docs |-> {}, fetched |-> 0, clean |-> TRUE]

\* sizes of the page the source returns after `fetched` documents: any while
\* nothing is known of the source, and for the second copy of a pair what is
\* left of the documents the unchanged source returned to the first
PageSizes(fetched) ==
    IF prev.run = 1
    THEN 0..(MaxDocs - fetched)
    ELSE IF fetched < prev.fetched THEN 1..(prev.fetched - fetched) ELSE {0}

----------------------------------------------------------------------------
\* copy_index: the except clause, then main's except clause

\* str(e), with the response text when the handler appends it
ErrorMsg(e) ==
    IF e.hasattr_response THEN <<e.type, "Response", e.response>> ELSE <<e.type>>

\* faulty variant: only request errors are caught and recorded
CopyIndexExcept_RequestErrorsOnly(st, source, target, e) ==
    IF e.hasattr_response /\ e.response # "None"
    THEN add_failure(st, source, target, ErrorMsg(e))
    ELSE st

\* copy_index lines 298-304: e.response.text raises AttributeError when the
\* exception has a response attribute that is None, before add_failure runs
CopyIndexExcept(st, source, target, e) ==
    IF e.hasattr_response /\ e.response = "None"
    THEN st
    ELSE add_failure(st, source, target, ErrorMsg(e))

\* faulty variant: the exception leaves main
MainExcept_NoCatch == "crashed"

\* main lines 423-425: the exception is logged and the loop continues
MainExcept == "loop"

\* faulty variant: reindex_data runs right after get_source_index_info
AfterGetInfo_SkipsCreate == "search"

\* copy_index lines 292-293: create_index_with_settings runs next, before
\* reindex_data
AfterGetInfo == "delete"

\* the locals of copy_index and of its callees end with the call
LocalsReset ==
    /\ settings_response' = EmptyDict
    /\ settings' = EmptyDict
    /\ mappings' = EmptyDict
    /\ scroll_id' = 0
    /\ hits' = {}
    /\ total_docs' = 0

\* an exception e leaves copy_index (hh: the history up to the raise)
Raise(e, hh) ==
    /\ stats' = CopyIndexExcept(stats, idx, idx, e)
    /\ pc' = MainExcept
    /\ h' = [hh EXCEPT !.outcome = "raised", !.error = e.type]
    /\ LocalsReset

\* copy_index lines 294-296: reindex_data returned total
Return(total, hh) ==
    /\ stats' = add_success(stats, idx, idx, total)
    /\ pc' = "loop"
    /\ h' = [hh EXCEPT !.outcome = "returned"]
    /\ LocalsReset

----------------------------------------------------------------------------
Init ==
    /\ pc = "start"
    /\ idx = 0
    /\ total_fields_limit \in PolicyValues
    /\ stats = NewStatistics
    /\ settings_response = EmptyDict
    /\ settings = EmptyDict
    /\ mappings = EmptyDict
    /\ scroll_id = 0
    /\ hits = {}
    /\ total_docs = 0
    /\ dest = Absent
    /\ live = {}
    /\ token = 0
    /\ output = EmptyDict
    /\ calls = <<>>
    /\ h = History(0)
    /\ prev = NoPrev
    /\ delete_response = "none"

\* main line 415
MainStart ==
    /\ pc = "start"
    /\ stats' = [stats EXCEPT !.start_time = TRUE]
    /\ pc' = "loop"
    /\ UNCHANGED <<delete_response, prev, idx, total_fields_limit, settings_response,
                   settings, mappings,
                   scroll_id, hits, total_docs, dest, live, token, output, calls, h>>

\* main lines 420-422: the next pair of index_map, or the end of the loop.
\* The target index of the new pair is absent or left by an earlier run.
MainLoop ==
    /\ pc = "loop"
    /\ IF idx < NumPairs
       THEN /\ idx' = idx + 1
            /\ pc' = "get_settings"
            /\ h' = History(idx + 1)
            /\ dest' \in {Absent, OldIndex}
            /\ token' = 0
            /\ calls' = Append(calls, idx + 1)
            /\ prev' = NoPrev
       ELSE /\ pc' = "finish"
            /\ UNCHANGED <<idx, h, dest, token, calls, prev>>
    /\ UNCHANGED <<total_fields_limit, stats, settings_response, settings, mappings,
                   scroll_id, hits, total_docs, live, output, delete_response>>

\* get_source_index_info lines 124-126: the settings request
GetSettings ==
    /\ pc = "get_settings"
    /\ \/ /\ \E body \in SettingsBodies(idx) : settings_response' = body
          /\ pc' = "get_mappings"
          /\ UNCHANGED <<stats, settings, mappings, scroll_id, hits, total_docs, h>>
       \/ \E e \in {HTTPError, ConnectionError} : Raise(e, h)
    /\ UNCHANGED <<delete_response, prev, idx, total_fields_limit, dest, live, token,
                   output, calls>>

\* get_source_index_info lines 129-137: the mappings request, then both bodies
\* are indexed by the index name
GetMappings ==
    /\ pc = "get_mappings"
    /\ \/ \E body \in MappingsBodies(idx) :
            IF idx \in DOMAIN settings_response /\ idx \in DOMAIN body
            THEN /\ settings' = settings_response[idx].settings
                 /\ mappings' = body[idx].mappings
                 /\ settings_response' = EmptyDict
                 /\ pc' = AfterGetInfo
                 /\ h' = [h EXCEPT !.infoDone = TRUE]
                 /\ UNCHANGED <<stats, scroll_id, hits, total_docs>>
            ELSE Raise(KeyError, h)
       \/ \E e \in {HTTPError, ConnectionError} : Raise(e, h)
    /\ UNCHANGED <<delete_response, prev, idx, total_fields_limit, dest, live, token,
                   output, calls>>

\* what the client gets from a delete request that removed the index or not:
\* 2xx, a status such as index-not-found, or a transport error (the request
\* never arrived, or the response was lost)
DeleteResponses(removed) ==
    IF removed THEN {"2xx", "raised"} ELSE {"non2xx", "raised"}

\* faulty variant: a delete that failed ends create_index_with_settings
AfterDelete_RaisesOnFailure(response) ==
    IF response = "2xx" THEN "create" ELSE "loop"

\* create_index_with_settings lines 159-166: the status of the delete
\* response is only logged and a transport error is swallowed
AfterDelete(response) == "create"

\* create_index_with_settings lines 157-164: the delete request
DeleteIndex ==
    /\ pc = "delete"
    /\ \E removed \in BOOLEAN :
         /\ removed => dest.exists
         /\ dest' = IF removed THEN Absent ELSE dest
         /\ h' = [h EXCEPT !.deleted = removed, !.deletes = @ + 1]
         /\ \E response \in DeleteResponses(removed) :
              /\ delete_response' = response
              /\ pc' = AfterDelete(response)
    /\ UNCHANGED <<prev, idx, total_fields_limit, stats, settings_response, settings,
                   mappings, scroll_id, hits, total_docs, live, token, output, calls>>

\* faulty variant: the index is created over the documents of the earlier copy
Created_OverEarlierCopy ==
    [exists |-> TRUE,
     config |-> CreateConfig(settings, mappings, total_fields_limit),
     docs |-> prev.docs]

\* the target index as the create request makes it
Created ==
    [exists |-> TRUE,
     config |-> CreateConfig(settings, mappings, total_fields_limit),
     docs |-> {}]

\* create_index_with_settings lines 166-206: the create request.  The cluster
\* refuses to create an index that exists; a transport error can come before
\* or after the cluster applied the request.
CreateIndex ==
    /\ pc = "create"
    /\ delete_response' = "none"
    /\ \/ /\ ~dest.exists
          /\ dest' = Created
          /\ h' = [h EXCEPT !.schemaDone = TRUE, !.created = TRUE,
                            !.createOk = TRUE, !.creates = @ + 1]
          /\ pc' = "search"
          /\ UNCHANGED <<stats, settings_response, settings, mappings, scroll_id,
                         hits, total_docs>>
       \/ /\ ~dest.exists
          /\ dest' = Created
          /\ Raise(ConnectionError, [h EXCEPT !.schemaDone = TRUE, !.created = TRUE,
                                              !.creates = @ + 1])
       \/ /\ \E e \in {HTTPError, ConnectionError} :
                Raise(e, [h EXCEPT !.schemaDone = TRUE, !.creates = @ + 1])
          /\ UNCHANGED dest
    /\ UNCHANGED <<prev, idx, total_fields_limit, live, token, output, calls>>

\* faulty variant: the next page is fetched while the page is not written
AfterPage_FetchesAhead(page) ==
    IF page # {} THEN "scroll" ELSE "release"

\* faulty variant: the empty page is asked for again
AfterPage_AsksAgain(page) ==
    IF page # {} THEN "bulk" ELSE "scroll"

\* faulty variant: the loop body runs for the empty page too
AfterPage_WritesEmptyPage(page) == "bulk"

\* line 235, `while hits:` - a page with documents is written, the empty page
\* ends the loop
AfterPage(page) ==
    IF page # {} THEN "bulk" ELSE "release"

\* the history after a page was returned
Paged(page, hh) ==
    [hh EXCEPT !.pages = IF page # {} THEN Append(@, page) ELSE @,
               !.fetched = @ + Cardinality(page)]

\* reindex_data lines 226-235: the opening search returns the token and the
\* first page
Search ==
    /\ pc = "search"
    /\ \/ \E k \in PageSizes(0) :
            /\ live' = live \cup {idx}
            /\ token' = 1
            /\ scroll_id' = 1
            /\ hits' = 1..k
            /\ total_docs' = 0
            /\ h' = Paged(1..k, [h EXCEPT !.searches = @ + 1, !.opened = @ + 1])
            /\ pc' = AfterPage(1..k)
            /\ UNCHANGED <<stats, settings_response, settings, mappings>>
       \/ \* 2xx with a token and no hits array
          /\ live' = live \cup {idx}
          /\ token' = 1
          /\ Raise(KeyError, [h EXCEPT !.searches = @ + 1, !.opened = @ + 1])
       \/ /\ \E e \in {HTTPError, ConnectionError} :
                Raise(e, [h EXCEPT !.searches = @ + 1])
          /\ UNCHANGED <<live, token>>
    /\ UNCHANGED <<delete_response, prev, idx, total_fields_limit, dest, output, calls>>

\* faulty variant: a page replaces the documents of the pages before it
BulkApplied_Overwrite(page, rejected) ==
    [dest EXCEPT !.docs = page \ rejected]

\* faulty variant: a page with a rejected document is not written at all
BulkApplied_AllOrNothing(page, rejected) ==
    IF rejected = {} THEN [dest EXCEPT !.docs = @ \cup page] ELSE dest

\* faulty variant: the action carries an id of its own making
BulkAction_NewId(target_index, hit) ==
    [_index |-> target_index, _id |-> hit + MaxDocs]

\* lines 237-240: the action line of one hit (a hit is its _id)
BulkAction(target_index, hit) ==
    [_index |-> target_index, _id |-> hit]

\* lines 236-240: the actions of the bulk request for a page
BulkBody(target_index, page) ==
    {BulkAction(target_index, hit) : hit \in page}

\* the actions of the page's bulk request the cluster carried out
Accepted(page, rejected) == BulkBody(idx, page \ rejected)

\* the target index after a bulk request of `page`, some documents rejected:
\* each action addressed to it indexes a document under the action's id
BulkApplied(page, rejected) ==
    [dest EXCEPT !.docs =
        @ \cup {a._id : a \in {b \in Accepted(page, rejected) : b._index = idx}}]

\* the actions carried out on an index other than the pair's target
Stray(page, rejected) ==
    {b \in Accepted(page, rejected) : b._index # idx}

\* faulty variant: the bulk requests are counted, not their documents
Counted_OnePerRequest(total, page) == total + 1

\* line 254, after the bulk response was read: the hits of the page are added
\* to the running count
Counted(total, page) == total + Cardinality(page)

\* reindex_data lines 236-255: one bulk request for the page; a status other
\* than 200 and errors=true are logged, only a transport error raises (before
\* the cluster wrote anything, or after it wrote some or all of the page)
Bulk ==
    /\ pc = "bulk"
    /\ \/ \E k \in DOMAIN BulkResponses :
          \E rejected \in RejectedBy(BulkResponses[k], hits) :
          LET r == BulkResponses[k] IN
            /\ dest' = BulkApplied(hits, rejected)
            /\ h' = [h EXCEPT !.bulks = @ + 1,
                              !.sent = Append(@, {a._id : a \in BulkBody(idx, hits)}),
                              !.written = @ \cup (hits \ rejected),
                              !.stray = @ \cup Stray(hits, rejected),
                              !.partials = IF r = "partial" THEN @ + 1 ELSE @,
                              !.errors = IF r = "error" THEN @ + 1 ELSE @]
            /\ total_docs' = Counted(total_docs, hits)
            /\ pc' = "scroll"
            /\ UNCHANGED <<stats, settings_response, settings, mappings,
                           scroll_id, hits>>
       \/ \E rejected \in SUBSET hits :
            /\ dest' = BulkApplied(hits, rejected)
            /\ Raise(ConnectionError,
                     [h EXCEPT !.bulks = @ + 1,
                               !.sent = Append(@, {a._id : a \in BulkBody(idx, hits)}),
                               !.written = @ \cup (hits \ rejected),
                               !.stray = @ \cup Stray(hits, rejected)])
    /\ UNCHANGED <<delete_response, prev, idx, total_fields_limit, live, token, output,
                   calls>>

\* faulty variant: the token of the first response is kept
ScrollIdAfterPage_Kept(response_token) == scroll_id

\* line 266: the token of the page response replaces the one held
ScrollIdAfterPage(response_token) == response_token

\* lines 258-261: the body of the next-page request
scroll_body == [scroll |-> "5m", scroll_id |-> scroll_id]

\* line 273: the body of the release request
release_body == [scroll_id |-> scroll_id]

\* the history after a request with `body` on the session: did it carry a
\* token other than the one of the latest response
Sent(body, hh) ==
    [hh EXCEPT !.stale = IF body.scroll_id = token THEN @ ELSE @ + 1]

\* reindex_data lines 257-267: the next page, asked with the token held
Scroll ==
    /\ pc = "scroll"
    /\ \/ \E k \in PageSizes(h.fetched) :
            /\ token' = token + 1
            /\ scroll_id' = ScrollIdAfterPage(token + 1)
            /\ hits' = (h.fetched + 1)..(h.fetched + k)
            /\ h' = Sent(scroll_body,
                         Paged((h.fetched + 1)..(h.fetched + k),
                               [h EXCEPT !.scrolls = @ + 1]))
            /\ pc' = AfterPage((h.fetched + 1)..(h.fetched + k))
            /\ UNCHANGED <<stats, settings_response, settings, mappings, total_docs>>
       \/ \* 2xx with a token and no hits array
          /\ token' = token + 1
          /\ Raise(KeyError, Sent(scroll_body, [h EXCEPT !.scrolls = @ + 1]))
       \/ /\ Raise(HTTPError, Sent(scroll_body, [h EXCEPT !.scrolls = @ + 1]))
          /\ UNCHANGED token
       \/ \* transport error, before or after the cluster answered
          /\ token' \in {token, token + 1}
          /\ Raise(ConnectionError, Sent(scroll_body, [h EXCEPT !.scrolls = @ + 1]))
    /\ UNCHANGED <<delete_response, prev, idx, total_fields_limit, dest, live, output,
                   calls>>

\* reindex_data lines 269-276 and copy_index lines 295-296: the release
\* request (its status is not read), then the success is recorded
Release ==
    /\ pc = "release"
    /\ live' = live \ {idx}
    /\ \/ Return(total_docs, Sent(release_body, [h EXCEPT !.released = @ + 1]))
       \/ Raise(ConnectionError, Sent(release_body, [h EXCEPT !.released = @ + 1]))
    /\ UNCHANGED <<delete_response, prev, idx, total_fields_limit, dest, token, output,
                   calls>>

\* main line 428
MainFinish ==
    /\ pc = "finish"
    /\ stats' = [stats EXCEPT !.end_time = TRUE]
    /\ pc' = "summary"
    /\ UNCHANGED <<delete_response, prev, idx, total_fields_limit, settings_response,
                   settings, mappings,
                   scroll_id, hits, total_docs, dest, live, token, output, calls, h>>

\* main line 429
MainSummary ==
    /\ pc = "summary"
    /\ ~summary_raises(stats)
    /\ output' = summary(stats)
    /\ pc' = "done"
    /\ UNCHANGED <<delete_response, prev, idx, total_fields_limit, stats,
                   settings_response, settings,
                   mappings, scroll_id, hits, total_docs, dest, live, token, calls, h>>

\* copy_index lines 282-296 called a second time with the pair it has just
\* copied, the source index unchanged: the target index is as the first copy
\* left it.  The pair that is copied twice is the last of the work list.
Rerun ==
    /\ pc = "loop"
    /\ h.outcome = "returned"
    /\ prev.run = 1
    /\ idx = NumPairs
    /\ prev' = [run |-> 2, docs |-> dest.docs, fetched |-> h.fetched,
                clean |-> (h.partials = 0 /\ h.errors = 0)]
    /\ pc' = "get_settings"
    /\ h' = History(idx)
    /\ token' = 0
    /\ calls' = Append(calls, idx)
    /\ UNCHANGED <<idx, total_fields_limit, stats, settings_response, settings,
                   mappings, scroll_id, hits, total_docs, dest, live, output,
                   delete_response>>

Next ==
    \/ MainStart
    \/ MainLoop
    \/ GetSettings
    \/ GetMappings
    \/ DeleteIndex
    \/ CreateIndex
    \/ Search
    \/ Bulk
    \/ Scroll
    \/ Release
    \/ MainFinish
    \/ MainSummary

Spec == Init /\ [][Next]_vars

\* the run in which a pair that was copied may be copied once more
RerunNext == Next \/ Rerun

\* the copier is constructed with the default policy (no value given)
DefaultInit == Init /\ total_fields_limit = None

RerunSpec == DefaultInit /\ [][RerunNext]_vars

\* every request returns (a response or an exception), and the statement after
\* it runs: the run does not stop while it has a step to take
FairSpec == DefaultInit /\ [][Next]_vars /\ WF_vars(Next)

----------------------------------------------------------------------------
\* A client of CopyStatistics that calls its methods in any order, recording
\* at most NumPairs outcomes

StatsInit ==
    /\ pc = "stats"
    /\ idx = 0
    /\ total_fields_limit = None
    /\ stats = NewStatistics
    /\ settings_response = EmptyDict
    /\ settings = EmptyDict
    /\ mappings = EmptyDict
    /\ scroll_id = 0
    /\ hits = {}
    /\ total_docs = 0
    /\ dest = Absent
    /\ live = {}
    /\ token = 0
    /\ output = EmptyDict
    /\ calls = <<>>
    /\ h = History(0)
    /\ prev = NoPrev
    /\ delete_response = "none"

StatsFrame ==
    UNCHANGED <<idx, total_fields_limit, settings_response, settings, mappings,
                scroll_id, hits, total_docs, dest, live, token, calls, h, prev,
                delete_response>>

\* lines 51-53
StatsStart ==
    /\ pc = "stats"
    /\ stats' = [stats EXCEPT !.start_time = TRUE]
    /\ UNCHANGED <<pc, output>>
    /\ StatsFrame

\* lines 55-57
StatsFinish ==
    /\ pc = "stats"
    /\ stats' = [stats EXCEPT !.end_time = TRUE]
    /\ UNCHANGED <<pc, output>>
    /\ StatsFrame

\* lines 42-45
StatsAddSuccess ==
    /\ pc = "stats"
    /\ Len(stats.successful_copies) + Len(stats.failed_copies) < NumPairs
    /\ \E i \in PairIds, doc_count \in 0..MaxDocs :
         stats' = add_success(stats, i, i, doc_count)
    /\ UNCHANGED <<pc, output>>
    /\ StatsFrame

\* lines 47-49
StatsAddFailure ==
    /\ pc = "stats"
    /\ Len(stats.successful_copies) + Len(stats.failed_copies) < NumPairs
    /\ \E i \in PairIds, e \in {HTTPError, KeyError} :
         stats' = add_failure(stats, i, i, ErrorMsg(e))
    /\ UNCHANGED <<pc, output>>
    /\ StatsFrame

\* lines 59-84
StatsSummary ==
    /\ pc = "stats"
    /\ IF summary_raises(stats)
       THEN pc' = "TypeError" /\ UNCHANGED output
       ELSE output' = summary(stats) /\ UNCHANGED pc
    /\ UNCHANGED stats
    /\ StatsFrame

StatsNext ==
    \/ StatsStart
    \/ StatsFinish
    \/ StatsAddSuccess
    \/ StatsAddFailure
    \/ StatsSummary

StatsSpec == StatsInit /\ [][StatsNext]_vars

----------------------------------------------------------------------------
\* Properties

\* the copy_index call for pair h.pair has ended and no other has started
Ended == h.outcome # "none"

Outcomes == Len(stats.successful_copies) + Len(stats.failed_copies)

LastSuccess == stats.successful_copies[Len(stats.successful_copies)]

RECURSIVE SumCounts(_)
SumCounts(copies) ==
    IF copies = <<>> THEN 0 ELSE copies[1][3] + SumCounts(Tail(copies))

\* C1: when copy_index has returned or raised, every scroll session it opened
\* has had its release request issued exactly once.
C1_ReleasedOncePerSession ==
    Ended => h.released = h.opened

\* C2: copy_index is called for every pair once and in the order of the work
\* list, whatever earlier pairs did; the run never stops before finish() and
\* summary() have run.
C2_EveryPairAttempted ==
    /\ \A k \in 1..Len(calls) : calls[k] = k
    /\ Len(calls) <= NumPairs
    /\ pc \in {"finish", "summary", "done"} => Len(calls) = NumPairs
    /\ pc \in {"summary", "done"} => stats.end_time
    /\ pc = "done" => output = summary(stats)
    /\ pc # "done" => ENABLED Next

\* pair 1 failed, the last pair was still copied, and the run finished
C2_Witness ==
    /\ pc = "done"
    /\ Len(calls) = NumPairs
    /\ Len(stats.failed_copies) > 0
    /\ stats.failed_copies[1][1] = 1
    /\ Len(stats.successful_copies) > 0
    /\ LastSuccess[1] = NumPairs

\* C3: every pair whose copy_index call has ended has exactly one outcome in
\* the statistics, and at the end of the run there are as many outcomes as pairs.
C3_OneOutcomePerPair ==
    /\ Ended => Outcomes = h.pair
    /\ pc = "done" => Outcomes = NumPairs

\* C4: once a bulk request got a response other than 200, the replication of
\* the index has aborted: nothing more is fetched or written and a Failure is
\* recorded, never a Success.
C4_BulkErrorAborts ==
    h.errors > 0 =>
        /\ h.outcome = "raised"
        /\ h.bulks = h.errors
        /\ Len(stats.failed_copies) > 0
        /\ stats.failed_copies[Len(stats.failed_copies)][1] = h.pair

C6_PartialContinues ==
    [][/\ h'.partials > h.partials =>
            /\ pc' = "scroll"
            /\ h'.outcome = "none"
            /\ stats' = stats
            /\ h'.written \subseteq dest'.docs
            /\ total_docs' = total_docs + Cardinality(hits)
       /\ (pc = "scroll" /\ h.partials > 0 /\ pc' = "bulk") =>
            /\ h'.scrolls = h.scrolls + 1
            /\ hits' # {}
       /\ (pc = "release" /\ h.partials > 0 /\ h'.outcome = "returned") =>
            /\ h'.written \subseteq dest'.docs
            /\ stats'.successful_copies =
                   Append(stats.successful_copies, <<h.pair, h.pair, h.fetched>>)
            /\ stats'.failed_copies = stats.failed_copies
      ]_vars

\* page {1} was rejected by a 200 response with errors, page {2} was fetched
\* and written after it, and the pair is a Success
C6_Witness ==
    /\ h.outcome = "returned"
    /\ h.partials = 1
    /\ h.errors = 0
    /\ h.bulks = 2
    /\ h.fetched = 2
    /\ dest.docs = {2}

\* C7: no search, next-page or bulk request is issued before the create
\* request of the pair has returned 2xx, and while it has not, the attempt has
\* written no document to the target index.
C7_SchemaBeforeData ==
    /\ (h.searches > 0 \/ h.scrolls > 0 \/ h.bulks > 0 \/ h.opened > 0) => h.createOk
    /\ pc \in {"search", "bulk", "scroll", "release"} => h.createOk
    /\ ~h.createOk => (h.written = {} /\ dest.docs \subseteq OldIndex.docs)

\* documents were written after the index was created
C7_Witness ==
    /\ h.createOk
    /\ h.bulks > 0
    /\ h.written # {}

\* C8 as stated: after create_index_with_settings has ended, the target index
\* exists only if the create request of this call made it; after a failed
\* create none is left.
C8_ExistsOnlyIfCreated ==
    (h.schemaDone /\ dest.exists) => h.created

\* C8 amended: after create_index_with_settings has ended, the target index
\* exists only if the cluster applied the create request, and then it carries
\* the shard and replica counts of the source and the source mappings, or if
\* neither the delete nor the create took effect, and then it is the index
\* that was there before, untouched; a create that is refused after the delete
\* removed the index leaves none.
C8_CreatedOrLeftover ==
    /\ (h.schemaDone /\ dest.exists) =>
          \/ /\ h.created
             /\ dest.config.mappings = SourceMappings(h.pair)
             /\ dest.config.settings.index.number_of_shards
                    = SourceIndexSettings.number_of_shards
             /\ dest.config.settings.index.number_of_replicas
                    = SourceIndexSettings.number_of_replicas
          \/ /\ ~h.created
             /\ ~h.deleted
             /\ dest = OldIndex
    /\ (h.schemaDone /\ ~h.created /\ h.deleted) => ~dest.exists
    /\ h.createOk => (h.created /\ dest.exists)

\* neither the delete nor the create took effect: the old index is still there
C8_Witness ==
    /\ h.schemaDone
    /\ ~h.created
    /\ ~h.deleted
    /\ h.outcome = "raised"
    /\ dest = OldIndex

\* C9: total_documents is the sum of the counts of the recorded successes, and
\* recording a failure changes neither total_documents nor the success list.
C9_TotalIsSum ==
    [][/\ stats'.total_documents = SumCounts(stats'.successful_copies)
       /\ Len(stats'.failed_copies) > Len(stats.failed_copies) =>
            /\ stats'.total_documents = stats.total_documents
            /\ stats'.successful_copies = stats.successful_copies
      ]_vars

\* a success with documents and a failure are recorded
C9_Witness ==
    /\ Len(stats.successful_copies) >= 1
    /\ Len(stats.failed_copies) >= 1
    /\ stats.total_documents = MaxDocs

\* the limit a source settings document declares
DeclaredLimit(s) ==
    IF "mapping" \in DOMAIN s.index
    THEN s.index.mapping.total_fields.limit
    ELSE None

\* the field limit of the target index as created (None when the key is absent)
DestLimit ==
    IF "mapping" \in DOMAIN dest.config.settings.index
    THEN dest.config.settings.index.mapping.total_fields.limit
    ELSE None

\* C10: right after the create request succeeded, the field limit of the
\* target index follows the policy: the limit the source declares (or no key)
\* for -1, the policy value when it is positive, and no key otherwise.
C10_FieldLimitPolicy ==
    (pc = "search" /\ h.createOk) =>
        IF total_fields_limit = Some(-1)
        THEN DestLimit = DeclaredLimit(settings)
        ELSE IF ~total_fields_limit.isNone /\ total_fields_limit.v > 0
             THEN DestLimit = total_fields_limit
             ELSE DestLimit = None

\* the second copy of a pair has ended as a Success
SecondCopyDone == prev.run = 2 /\ h.outcome = "returned"

\* C11 as stated: after the second of two successive copies of a pair from an
\* unchanged source, the target index holds the same documents as after the
\* first.
C11_SameAfterSecondCopy ==
    SecondCopyDone => dest.docs = prev.docs

\* C11 amended: the second copy replaces the target index (the delete removed
\* it and the create made it anew), so that afterwards it holds exactly the
\* documents the bulk requests of the second copy wrote, none left by the
\* first; both copies record the same count, and the index holds the same
\* documents after both whenever every bulk response of both copies was 200
\* without errors.
C11_ReplacedNotMerged ==
    SecondCopyDone =>
        /\ h.deleted /\ h.created
        /\ dest.docs = h.written
        /\ h.fetched = prev.fetched
        /\ LastSuccess[3] = stats.successful_copies[Len(stats.successful_copies) - 1][3]
        /\ (prev.clean /\ h.partials = 0 /\ h.errors = 0) =>
               (dest.docs = prev.docs /\ Cardinality(dest.docs) = prev.fetched)

\* a source of MaxDocs documents was copied twice, whole both times
C11_Witness ==
    /\ SecondCopyDone
    /\ prev.clean
    /\ prev.docs = 1..MaxDocs
    /\ dest.docs = 1..MaxDocs
    /\ h.deleted

\* C12: whatever the delete request gave, the next request is the create
\* request and nothing is recorded; after a delete that failed, the create
\* request is issued and its result alone decides: 2xx leads to the opening
\* search, anything else raises.
C12_DeleteFailureSwallowed ==
    [][/\ pc = "delete" =>
            /\ pc' = "create"
            /\ h'.deletes = 1
            /\ h'.outcome = "none"
            /\ ~h'.schemaDone
            /\ stats' = stats
       /\ (pc = "create" /\ delete_response \in {"non2xx", "raised"}) =>
            /\ h'.creates = h.creates + 1
            /\ h'.schemaDone
            /\ h'.createOk => (pc' = "search" /\ h'.outcome = "none" /\ stats' = stats)
            /\ ~h'.createOk => h'.outcome = "raised"
      ]_vars

\* the delete found no index to remove, and the create request returned 2xx
C12_Witness ==
    /\ pc = "search"
    /\ h.deletes = 1
    /\ ~h.deleted
    /\ h.createOk
    /\ dest = Created

C14_StatisticsNeverRaise ==
    pc # "TypeError"

\* C15: no next-page or release request carried a token other than the one
\* of the latest response of the session, and whenever the next request is a
\* next-page or release request the client holds that token.
C15_LatestTokenSent ==
    /\ h.stale = 0
    /\ pc \in {"scroll", "release"} => (token >= 1 /\ scroll_id = token)

\* the session was released with the token of its third response
C15_Witness ==
    /\ h.outcome = "returned"
    /\ h.scrolls = 2
    /\ h.released = 1
    /\ token = 3
    /\ h.stale = 0

\* requests the current copy_index call has issued to write or read data
Requests(hh) ==
    hh.deletes + hh.creates + hh.searches + hh.scrolls + hh.bulks + hh.released

\* C16: a next-page or release request is issued only when the bulk request
\* of every page returned so far has returned, and a bulk request only for
\* the one page that is not yet written; a step issues at most one request,
\* none once the call has ended; copy_index is called for the next pair only
\* when the call for the pair before it has ended.
C16_StrictlySequential ==
    [][/\ (h'.pair = h.pair /\ (h'.scrolls > h.scrolls \/ h'.released > h.released)) =>
            Len(h.pages) = h.bulks
       /\ (h'.pair = h.pair /\ h'.bulks > h.bulks) =>
            /\ Len(h.pages) = h.bulks + 1
            /\ h.searches + h.scrolls = Len(h.pages)
       /\ h'.pair = h.pair =>
            /\ Requests(h') <= Requests(h) + 1
            /\ Requests(h') > Requests(h) => h.outcome = "none"
       /\ calls' # calls => (calls = <<>> \/ h.outcome # "none")
      ]_vars

\* the second pair fetched two pages, each written before the next request
C16_Witness ==
    /\ h.pair = 2
    /\ pc = "release"
    /\ Len(h.pages) = 2
    /\ h.bulks = 2
    /\ h.scrolls = 2

\* C17: the bulk requests issued so far carry, in order, the documents of the
\* non-empty pages returned so far, one request per page, the latest page
\* still to be written when the next request is the bulk request; no bulk
\* request is issued for an empty page; for a Success there are as many bulk
\* requests as non-empty pages.
C17_OneBulkPerPage ==
    /\ h.bulks = Len(h.sent)
    /\ Len(h.sent) <= Len(h.pages)
    /\ \A k \in 1..Len(h.sent) : h.sent[k] = h.pages[k] /\ h.sent[k] # {}
    /\ pc = "bulk" => (hits # {} /\ Len(h.pages) = h.bulks + 1
                       /\ h.pages[Len(h.pages)] = hits)
    /\ pc \in {"scroll", "release"} => h.bulks = Len(h.pages)
    /\ h.outcome = "returned" =>
          /\ h.bulks = Len(h.pages)
          /\ h.scrolls = Len(h.pages)
          /\ h.searches = 1

\* a Success of two non-empty pages and two bulk requests
C17_Witness ==
    /\ h.outcome = "returned"
    /\ h.pages = <<{1}, {2}>>
    /\ h.sent = <<{1}, {2}>>
    /\ h.bulks = 2

\* C18: at most one scroll session is opened and not released by the client.
C18_OneLiveSession ==
    Cardinality(live) <= 1

\* C19: the run ends with its summary rendered, after copy_index was called
\* and has ended for every pair; a fetch that returns no non-empty page leads
\* to the release request and from there to the end of the call; and no
\* request is issued a second time: one opening search, one delete, one
\* create and one release at most, and no more next-page and bulk requests
\* than non-empty pages were returned.
C19_TerminatesWithoutRetry ==
    /\ <>(pc = "done" /\ Len(calls) = NumPairs /\ h.outcome # "none"
           /\ output = summary(stats))
    /\ [](/\ h.deletes <= 1 /\ h.creates <= 1
          /\ h.searches <= 1 /\ h.released <= 1
          /\ h.bulks <= Len(h.pages)
          /\ h.scrolls <= Len(h.pages)
          /\ Len(h.pages) <= MaxDocs)
    /\ [][/\ (/\ h'.pair = h.pair
              /\ h'.searches + h'.scrolls > h.searches + h.scrolls
              /\ h'.outcome = "none"
              /\ h'.pages = h.pages) => pc' = "release"
          /\ pc = "release" => (h'.outcome # "none" /\ pc' = "loop")
         ]_vars

\* the last pair ran through MaxDocs pages before the empty one, and the
\* summary is rendered
C19_Witness ==
    /\ pc = "done"
    /\ Len(h.pages) = MaxDocs
    /\ h.scrolls = MaxDocs
    /\ h.outcome = "returned"
    /\ output = summary(stats)

\* the call ended in get_source_index_info, on a response that was not 2xx or
\* on a body without the index name
SchemaFetchFailed ==
    /\ h.outcome = "raised"
    /\ ~h.infoDone
    /\ h.error \in {"HTTPError", "KeyError"}

\* C20: when copy_index ended because a schema request returned a status
\* other than 2xx or a body lacked the index name, it has issued no delete,
\* create, search, next-page, bulk or release request, the target index is
\* as it was before the call, and the pair is the latest recorded Failure.
C20_SchemaFetchFailureFrame ==
    SchemaFetchFailed =>
        /\ Requests(h) = 0
        /\ ~h.deleted /\ ~h.created /\ h.written = {} /\ h.opened = 0
        /\ dest \in {Absent, OldIndex}
        /\ Len(stats.failed_copies) > 0
        /\ stats.failed_copies[Len(stats.failed_copies)][1] = h.pair
        /\ \A k \in 1..Len(stats.successful_copies) :
               stats.successful_copies[k][1] # h.pair

\* a settings or mappings body lacked the index name: the index an earlier
\* run left is untouched and the Failure is recorded
C20_Witness ==
    /\ SchemaFetchFailed
    /\ h.error = "KeyError"
    /\ dest = OldIndex
    /\ stats.failed_copies[Len(stats.failed_copies)] = <<h.pair, h.pair, <<"KeyError">>>>

\* the opening search returned a token and no hits, and the release request
\* of the session has been issued
EmptySourceReleased ==
    /\ h.searches = 1
    /\ h.opened = 1
    /\ h.pages = <<>>
    /\ h.released >= 1

\* C21: when the opening search returned a token and an empty page, the call
\* issues no bulk and no next-page request and one release request, and it
\* ends as a Success of 0 documents that leaves the total as the sum of the
\* counts recorded before.
C21_EmptySourceIsSuccess ==
    EmptySourceReleased =>
        /\ h.bulks = 0
        /\ h.scrolls = 0
        /\ h.released = 1
        /\ h.outcome = "returned"
        /\ Len(stats.successful_copies) > 0
        /\ LastSuccess = <<h.pair, h.pair, 0>>
        /\ stats.total_documents = SumCounts(stats.successful_copies)

RECURSIVE SumSizes(_)
SumSizes(pageSeq) ==
    IF pageSeq = <<>> THEN 0
    ELSE Cardinality(pageSeq[1]) + SumSizes(Tail(pageSeq))

====
